---- MODULE Spec2Model ----
(***************************************************************************)
(* Evidence Screenshotter: a model of the paragraph defragmenter           *)
(* (paragraph-utils), of the content script's extraction state machine     *)
(* (extractor.ts) and of the viewport-capture retry loop inside the        *)
(* full-page stitcher (extractor.ts, service-worker/index.ts).             *)
(*                                                                         *)
(* Three specifications share the variables:                               *)
(*   SpecCollapse  collapseFragmentedParagraphs applied to a container     *)
(*   SpecExtract   the EXTRACT_CONTENT handler of the content script       *)
(*   Spec          the stitching loop and its CAPTURE_VIEWPORT exchange    *)
(* Each leaves the variables of the other two at their initial values.     *)
(***************************************************************************)
EXTENDS Integers, Sequences, FiniteSets, TLC

VARIABLES
    \* ---- paragraph defragmenter ----
    inputKids,     \* the container's children as built: Seq of [tag, shape]
    dom,           \* the live DOM: [kids: Seq of node ids, text: id -> text]
    outs,          \* the DOM after each call of collapseFragmentedParagraphs
    \* ---- content extraction ----
    doc,           \* the document the content script runs in
    extractLog,    \* one entry per EXTRACT_CONTENT message handled
    \* ---- full-page stitching ----
    pc,            \* position of captureFullPage / captureViewportWithRetry
    numCaptures,   \* number of sections of this stitch
    section,       \* loop variable i of captureFullPage
    adaptiveDelay, \* captureFullPage's adaptiveDelay, in quarter milliseconds
    delay,         \* captureViewportWithRetry's delay, in quarter milliseconds
    currentDelay,  \* captureViewportWithRetry's parameter currentDelay
    attempt,       \* captureViewportWithRetry's attempt
    channel,       \* CAPTURE_VIEWPORT exchange: "none", "request" or a response
    sectionLog,    \* responses received for the current section, in order
    waits,         \* backoff timers awaited for the current section
    requests,      \* CAPTURE_VIEWPORT messages sent for the current section
    stitchError,   \* the error captureFullPage rejected with, or "none"
    session,       \* number of stitching sessions started
    \* ---- the page and the canvas of the stitch ----
    page,          \* window metrics: [viewportHeight, totalHeight, dpr]
    scrollY,       \* window.scrollY of the tab
    originalScrollY, \* captureFullPage's originalScrollY
    canvasHeight,  \* canvas.height, in device pixels
    drawLog,       \* the drawImage calls of this stitch: [i, destY, destHeight]
    scrolls,       \* window.scrollTo calls made by the loop of this stitch
    answers,       \* sendResponse calls made for this stitch
    tabChannel,    \* CAPTURE_FULL_PAGE exchange between service worker and tab
    \* ---- the coordinator ----
    cpc,           \* position of handleCaptureRequest
    request,       \* the request being handled: [no, captureType, url]
    msgAttempt,    \* sendMessageToTab's attempt
    acquired,      \* request number that obtained screenshot, dimensions, content
    effects,       \* calls made for this request: injections, tab messages, screenshots
    storage,       \* chrome.storage.local under CAPTURE_STORAGE_KEY
    writes,        \* successful storage writes of this request
    thrown,        \* the error on its way to the catch block
    outcome,       \* how the last request ended: "none", "complete", "error"
    requestNo,     \* number of capture requests received
    elapsed,       \* quarter-ms since lastCaptureTime, up to the section's first request
    tab            \* listeners registered in the tab, messages on their way, loops running

collapseVars == <<inputKids, dom, outs>>
extractVars  == <<doc, extractLog>>
captureVars  == <<pc, numCaptures, section, adaptiveDelay, delay, currentDelay,
                  attempt, channel, sectionLog, waits, requests, stitchError,
                  session, elapsed>>
pageVars     == <<page, scrollY, originalScrollY, canvasHeight, drawLog, scrolls,
                  answers>>
coordVars    == <<cpc, request, msgAttempt, acquired, effects, storage, writes,
                  thrown, outcome, requestNo, tab>>
vars == <<inputKids, dom, outs, doc, extractLog, pc, numCaptures, section,
          adaptiveDelay, delay, currentDelay, attempt, channel, sectionLog,
          waits, requests, stitchError, session, page, scrollY,
          originalScrollY, canvasHeight, drawLog, scrolls, answers,
          tabChannel, cpc, request, msgAttempt, acquired, effects, storage,
          writes, thrown, outcome, requestNo, elapsed, tab>>

(***************************************************************************)
(* Bounds of the model.                                                    *)
(***************************************************************************)
MaxChildren == 5    \* children of the container handed to the defragmenter
MaxCalls == 2       \* successive calls of the defragmenter on one container
MaxSections == 3    \* sections of one stitch
MaxSessions == 2    \* capture requests, and so stitching sessions, in one behaviour
MaxExtracts == 2    \* EXTRACT_CONTENT messages in one behaviour

(***************************************************************************)
(* PARAGRAPH DEFRAGMENTER                                                  *)
(*                                                                         *)
(* A text is a sequence of tokens.  A token is either one whitespace       *)
(* character (src = 0) or a block of n non-whitespace characters that      *)
(* came from the child with id src.  Node ids are positions in the         *)
(* container as built.                                                     *)
(***************************************************************************)
SHORT_PARAGRAPH_THRESHOLD == 80

SP == [src |-> 0, n |-> 1]

IsSp(t) == t.src = 0

\* The shapes of child a container is built from.
Shapes == { [tag |-> "DIV", shape |-> "b26"],
            [tag |-> "P",   shape |-> "space"],
            [tag |-> "P",   shape |-> "b26"],
            [tag |-> "P",   shape |-> "b27"],
            [tag |-> "P",   shape |-> "padded80"],
            [tag |-> "P",   shape |-> "b81"] }

\* textContent of a freshly built child.
MkText(id, shape) ==
    CASE shape = "space"    -> <<SP>>
      [] shape = "b26"      -> <<[src |-> id, n |-> 26]>>
      [] shape = "b27"      -> <<[src |-> id, n |-> 27]>>
      [] shape = "padded80" -> <<SP, [src |-> id, n |-> 80], SP>>
      [] shape = "b81"      -> <<[src |-> id, n |-> 81]>>

\* String.prototype.trim: drop leading and trailing whitespace.
RECURSIVE TrimStart(_)
TrimStart(s) ==
    IF s # <<>> /\ IsSp(Head(s)) THEN TrimStart(Tail(s)) ELSE s

RECURSIVE TrimEnd(_)
TrimEnd(s) ==
    IF s # <<>> /\ IsSp(s[Len(s)]) THEN TrimEnd(SubSeq(s, 1, Len(s) - 1)) ELSE s

Trim(s) == TrimEnd(TrimStart(s))

\* String.prototype.length.
RECURSIVE TextLength(_)
TextLength(s) == IF s = <<>> THEN 0 ELSE Head(s).n + TextLength(Tail(s))

\* (el.textContent || '').trim().length
TrimmedLength(text) == TextLength(Trim(text))

TagOf(id) == inputKids[id].tag

\* child.tagName === 'P' and trimmed text length <= threshold
IsShortParagraphAnyTag(id, d, threshold) ==
    ~(TrimmedLength(d.text[id]) > threshold)

IsShortParagraph(id, d, threshold) ==
    /\ TagOf(id) = "P"
    /\ ~(TrimmedLength(d.text[id]) > threshold)

\* The inner while loop (lines 28-34): the first index at or after j whose
\* element ends the run.
RECURSIVE RunEnd(_, _, _, _)
RunEnd(children, j, d, threshold) ==
    IF j > Len(children) THEN j
    ELSE IF ~IsShortParagraph(children[j], d, threshold) THEN j
    ELSE RunEnd(children, j + 1, d, threshold)

\* Element.remove(): detach the node from the container (no-op when detached).
RemoveKid(kids, id) == SelectSeq(kids, LAMBDA k : k # id)

\* One iteration of the for loop over run[1..] (lines 39-45): append a text
\* node ' ' to target, move every child node of src to target, remove src.
MergeOneKeepSibling(target, src, d) ==
    [kids |-> d.kids,
     text |-> [d.text EXCEPT ![target] = d.text[target] \o <<SP>> \o d.text[src],
                             ![src] = <<>>]]

MergeOne(target, src, d) ==
    [kids |-> RemoveKid(d.kids, src),
     text |-> [d.text EXCEPT ![target] = d.text[target] \o <<SP>> \o d.text[src],
                             ![src] = <<>>]]

RECURSIVE MergeRun(_, _, _)
MergeRun(run, k, d) ==
    IF k > Len(run) THEN d
    ELSE MergeRun(run, k + 1, MergeOne(run[1], run[k], d))

\* run.length >= 3
ShouldMergeAtFour(run) == Len(run) >= 4

ShouldMergeAtTwo(run) == Len(run) >= 2

ShouldMerge(run) == Len(run) >= 3

\* The outer while loop (lines 12-50) over the snapshot `children` taken at
\* line 9; the snapshot keeps the elements that a merge has detached.
RECURSIVE CollapseLoop(_, _, _, _)
CollapseLoop(children, i, d, threshold) ==
    IF i > Len(children) THEN d
    ELSE IF TagOf(children[i]) # "P"
         THEN CollapseLoop(children, i + 1, d, threshold)
    ELSE IF TrimmedLength(d.text[children[i]]) > threshold
         THEN CollapseLoop(children, i + 1, d, threshold)
    ELSE LET j   == RunEnd(children, i + 1, d, threshold)
             run == SubSeq(children, i, j - 1)
         IN  IF ShouldMerge(run)
             THEN CollapseLoop(children, i + 1, MergeRun(run, 2, d), threshold)
             ELSE CollapseLoop(children, j, d, threshold)

collapseFragmentedParagraphs(d, threshold) ==
    CollapseLoop(d.kids, 1, d, threshold)

\* The container as built from a sequence of shapes.
BuildDom(kidsSpec) ==
    [kids |-> [p \in 1..Len(kidsSpec) |-> p],
     text |-> [p \in 1..Len(kidsSpec) |-> MkText(p, kidsSpec[p].shape)]]

ContainerInputs == UNION { [1..n -> Shapes] : n \in 1..MaxChildren }

InitCollapse ==
    /\ inputKids \in ContainerInputs
    /\ dom = BuildDom(inputKids)
    /\ outs = <<>>

\* One call collapseFragmentedParagraphs(container) with the default threshold.
CollapseCall ==
    /\ Len(outs) < MaxCalls
    /\ dom' = collapseFragmentedParagraphs(dom, SHORT_PARAGRAPH_THRESHOLD)
    /\ outs' = Append(outs, dom')
    /\ UNCHANGED inputKids
    /\ UNCHANGED <<extractVars, captureVars, pageVars, tabChannel, coordVars>>

(***************************************************************************)
(* CONTENT EXTRACTION                                                      *)
(*                                                                         *)
(* A string that the code searches with includes() is a sequence of        *)
(* pieces; includes() is a match of a contiguous run of pieces.            *)
(* Confidence values are in tenths (0.8 is 8).                             *)
(***************************************************************************)
SOCIAL_MEDIA_DOMAINS ==
    { <<"twitter.com">>, <<"x.com">>, <<"facebook.com">>, <<"fb.com">>,
      <<"instagram.com">>, <<"linkedin.com">>, <<"threads.net">>,
      <<"mastodon.social">>, <<"bsky.app">> }

FORUM_INDICATORS ==
    { <<"reddit.com">>, <<"news.ycombinator.com">>, <<"discourse">>,
      <<"forum">>, <<"forum", "s">>, <<"community">> }

\* String.prototype.includes
Includes(hay, needle) ==
    \E i \in 0..(Len(hay) - Len(needle)) :
        SubSeq(hay, i + 1, i + Len(needle)) = needle

\* String.prototype.toLowerCase, piece by piece.
LowerPiece(t) ==
    CASE t = "Forum" -> "forum"
      [] t = "X.COM" -> "x.com"
      [] OTHER -> t

ToLowerCase(str) == [k \in 1..Len(str) |-> LowerPiece(str[k])]

\* The hostnames and the rest (path and query) of location.href.
Hostnames == { <<"example.com">>,
               <<"x.com">>,
               <<"netfli", "x.com">>,
               <<"forum", ".", "x.com">>,
               <<"old.", "reddit.com">> }

UrlRests == { <<"/">>, <<"/", "Forum", "/1">>, <<"/share?via=", "X.COM">> }

Href(u) == <<"https://">> \o u.hostname \o u.rest

\* isLikelyArticle's score.
isLikelyArticleLowOg(d) ==
    LET s1 == IF d.hasArticleTag THEN 2 ELSE 0
        s2 == IF d.hasMainContent THEN s1 + 1 ELSE s1
        s3 == IF d.hasAuthor THEN s2 + 1 ELSE s2
        s4 == IF d.hasPublishDate THEN s3 + 1 ELSE s3
        s5 == IF d.ogType = "article" THEN s4 + 1 ELSE s4
    IN  s5 >= 3

isLikelyArticle(d) ==
    LET s1 == IF d.hasArticleTag THEN 2 ELSE 0
        s2 == IF d.hasMainContent THEN s1 + 1 ELSE s1
        s3 == IF d.hasAuthor THEN s2 + 1 ELSE s2
        s4 == IF d.hasPublishDate THEN s3 + 1 ELSE s3
        s5 == IF d.ogType = "article" THEN s4 + 2 ELSE s4
    IN  s5 >= 3

detectPageType(u, d) ==
    LET hostname == ToLowerCase(u.hostname)
    IN  IF \E domain \in SOCIAL_MEDIA_DOMAINS : Includes(hostname, domain)
        THEN "social-media"
        ELSE IF \E indicator \in FORUM_INDICATORS :
                    \/ Includes(hostname, indicator)
                    \/ Includes(ToLowerCase(Href(u)), indicator)
        THEN "forum"
        ELSE IF isLikelyArticle(d) THEN "article"
        ELSE "generic"

\* A function's outcome: a value, nothing (null), or an exception.
Value(v) == [kind |-> "value", v |-> v]
Null     == [kind |-> "null"]
Thrown   == [kind |-> "throw"]

\* extractWithReadability: Readability's parse() gives an article, gives null,
\* or throws; the catch turns an exception into null.
extractWithReadabilityUncaught(d) ==
    IF d.readability = "article"
    THEN Value([title         |-> d.articleTitle,
                content       |-> "readability-content",
                textContent   |-> "readability-text",
                byline        |-> d.articleMeta,
                publishedTime |-> d.articleMeta,
                pageType      |-> detectPageType(d.url, d),
                confidence    |-> 8])
    ELSE IF d.readability = "throw" THEN Thrown
    ELSE Null

extractWithReadabilityPartial(d) ==
    IF d.readability = "article"
    THEN Value([title         |-> d.articleTitle,
                content       |-> "readability-content",
                textContent   |-> "readability-text",
                byline        |-> d.articleMeta,
                publishedTime |-> d.articleMeta,
                pageType      |-> detectPageType(d.url, d),
                confidence    |-> 5])
    ELSE Null

extractWithReadability(d) ==
    IF d.readability = "article"
    THEN Value([title         |-> d.articleTitle,
                content       |-> "readability-content",
                textContent   |-> "readability-text",
                byline        |-> d.articleMeta,
                publishedTime |-> d.articleMeta,
                pageType      |-> detectPageType(d.url, d),
                confidence    |-> 8])
    ELSE Null

\* extractFallback: has no try/catch of its own.
extractFallback(d) ==
    IF d.fallbackThrows
    THEN Thrown
    ELSE Value([title         |-> IF d.docTitle # "" THEN d.docTitle
                                  ELSE "Untitled Page",
                content       |-> "fallback-content",
                textContent   |-> "fallback-text",
                byline        |-> "undefined",
                publishedTime |-> "undefined",
                pageType      |-> detectPageType(d.url, d),
                confidence    |-> 4])

MaxOf(a, b) == IF a >= b THEN a ELSE b

\* readabilityResult && readabilityResult.confidence > 0.5
AcceptsPrimary(r) ==
    r.kind = "value" /\ r.v.confidence > 5

extractContent(strategy, d) ==
    LET readabilityResult == extractWithReadability(d)
    IN  IF AcceptsPrimary(readabilityResult)
        THEN readabilityResult
        ELSE IF strategy = "heuristic" \/ readabilityResult.kind = "null"
        THEN LET fallbackResult == extractFallback(d)
             IN  IF fallbackResult.kind = "throw" THEN Thrown
                 ELSE IF readabilityResult.kind = "value"
                 THEN Value([fallbackResult.v EXCEPT
                        !.title = IF readabilityResult.v.title # ""
                                  THEN readabilityResult.v.title
                                  ELSE fallbackResult.v.title,
                        !.byline = readabilityResult.v.byline,
                        !.publishedTime = readabilityResult.v.publishedTime,
                        !.confidence = MaxOf(readabilityResult.v.confidence,
                                             fallbackResult.v.confidence)])
                 ELSE fallbackResult
        ELSE readabilityResult

\* The response of the try branch of the EXTRACT_CONTENT listener.
CompleteResponse(content, d) ==
    [type |-> "EXTRACTION_COMPLETE", content |-> content, title |-> d.docTitle]

\* The content of the catch branch.
PlaceholderContent(d) ==
    [title         |-> IF d.docTitle # "" THEN d.docTitle ELSE "Unknown Page",
     content       |-> "failure-notice",
     textContent   |-> "failure-text",
     byline        |-> "undefined",
     publishedTime |-> "undefined",
     pageType      |-> "generic",
     confidence    |-> 0]

\* The calls of sendResponse that the catch branch makes.
CatchResponsesNone(d) == <<>>

CatchResponses(d) == <<CompleteResponse(PlaceholderContent(d), d)>>

\* The calls of sendResponse that one run of the EXTRACT_CONTENT listener
\* makes, in order.
ListenerResponses(strategy, d) ==
    LET content == extractContent(strategy, d)
    IN  IF content.kind = "throw"
        THEN CatchResponses(d)
        ELSE <<CompleteResponse(content.v, d)>>

Strategies == {"readability", "heuristic"}

Documents ==
    [url            : [hostname : Hostnames, rest : UrlRests],
     hasArticleTag  : BOOLEAN,
     hasMainContent : BOOLEAN,
     hasAuthor      : BOOLEAN,
     hasPublishDate : BOOLEAN,
     ogType         : {"none", "article", "website"},
     readability    : {"article", "null", "throw"},
     articleTitle   : {"", "Article title"},
     articleMeta    : {"undefined", "meta"},
     docTitle       : {"", "Document title"},
     fallbackThrows : BOOLEAN]

InitExtract ==
    /\ doc \in Documents
    /\ extractLog = <<>>

\* chrome.runtime.onMessage listener, message.type === 'EXTRACT_CONTENT'.
OnExtractContent(strategy) ==
    /\ Len(extractLog) < MaxExtracts
    /\ extractLog' = Append(extractLog,
                        [strategy  |-> strategy,
                         threw     |-> extractContent(strategy, doc).kind = "throw",
                         responses |-> ListenerResponses(strategy, doc)])
    /\ UNCHANGED doc
    /\ UNCHANGED <<collapseVars, captureVars, pageVars, tabChannel, coordVars>>

NextExtract == \E strategy \in Strategies : OnExtractContent(strategy)

(***************************************************************************)
(* FULL-PAGE STITCHING: the loop of captureFullPage around                 *)
(* captureViewportWithRetry, and the service worker's answer to            *)
(* CAPTURE_VIEWPORT.                                                       *)
(*                                                                         *)
(* Delays are in quarter milliseconds, which represents 550 * 1.5^k        *)
(* exactly for every k at which the cap of 2000 ms has not been reached.   *)
(***************************************************************************)
Quarters(ms) == 4 * ms

\* CAPTURE_CONFIG.rateLimitMs
rateLimitMs == 550

\* CAPTURE_CONFIG.scrollDelay
scrollDelay == 150

\* CAPTURE_CONFIG.minCaptureDelay
minCaptureDelay == 50

\* const wait = Math.max(CAPTURE_CONFIG.minCaptureDelay, adaptiveDelay -
\* elapsed), in quarter-ms, with elapsed = now - lastCaptureTime
RateWaitMinimum(adaptive, sinceCapture) == Quarters(minCaptureDelay)

RateWait(adaptive, sinceCapture) ==
    IF adaptive - sinceCapture >= Quarters(minCaptureDelay)
    THEN adaptive - sinceCapture
    ELSE Quarters(minCaptureDelay)

\* captureViewportWithRetry's default maxRetries
maxRetries == 5

\* the cap in Math.min(delay * 1.5, 2000)
delayCapMs == 2000

\* Math.min(delay * 1.5, 2000)
BackoffDelayDoubling(d) ==
    IF 2 * d >= Quarters(delayCapMs) THEN Quarters(delayCapMs) ELSE 2 * d

BackoffDelay(d) ==
    IF 3 * d >= 2 * Quarters(delayCapMs)
    THEN Quarters(delayCapMs)
    ELSE (3 * d) \div 2

\* What the callback of chrome.runtime.sendMessage can be handed:
\*   dataUrl      a string
\*   rateLimited  { error } whose text holds MAX_CAPTURE_VISIBLE_TAB_CALLS_PER_SECOND
\*   error        { error } with another text
\*   lastError    chrome.runtime.lastError is set (no response arrived)
\*   invalid      neither a string nor an object with an error
Responses == {"dataUrl", "rateLimited", "error", "lastError", "invalid"}

\* requestViewportCapture: resolves on a string, rejects otherwise.
Resolves(response) == response = "dataUrl"

\* err.message.includes('MAX_CAPTURE_VISIBLE_TAB_CALLS_PER_SECOND')
IsRateLimitedAnyError(response) == response # "dataUrl"

IsRateLimited(response) == response = "rateLimited"

\* attempt < maxRetries - 1
MayRetryThroughLast(a) == a < maxRetries

MayRetry(a) == a < maxRetries - 1

\* nextDelay of a successful captureViewportWithRetry
NextDelayResets(d, current) == current

NextDelay(d, current) == d

\* CAPTURE_CONFIG.maxPageHeight
maxPageHeight == 120000

\* window.devicePixelRatio is carried in halves (1 is 0.5, 2 is 1, 3 is 1.5,
\* 4 is 2) and canvas offsets in half device pixels.
Halves(px) == 2 * px

DevicePixelRatios == {1, 2, 3, 4}

MinOf2(a, b) == IF a <= b THEN a ELSE b

\* Math.ceil(a / b) for a >= 0, b >= 1
CeilDivFloor(a, b) == a \div b

CeilDiv(a, b) == (a + b - 1) \div b

\* Math.min(totalHeight, CAPTURE_CONFIG.maxPageHeight)
ClampHeightNone(totalHeight) == totalHeight

ClampHeight(totalHeight) == MinOf2(totalHeight, maxPageHeight)

\* canvas.height = maxHeight * dpr: the attribute is an unsigned long, so the
\* assignment keeps the integer part of the product.
CanvasHeight(pg) == (ClampHeight(pg.totalHeight) * pg.dpr) \div 2

\* Height in device pixels of the image captureVisibleTab yields for the
\* viewport.
ImageHeight(pg) == (pg.viewportHeight * pg.dpr) \div 2

\* window.scrollTo(0, y): the page cannot scroll past its last viewport.
ScrollTo(pg, y) == MinOf2(y, pg.totalHeight - pg.viewportHeight)

\* const destY = scrollY * dpr, in half device pixels
DestY(pg, i) == i * pg.viewportHeight * pg.dpr

\* const destHeight = Math.min(img.height, canvas.height - destY)
DestHeightUnclamped(pg, canvasH, i) == Halves(ImageHeight(pg))

DestHeight(pg, canvasH, i) ==
    MinOf2(Halves(ImageHeight(pg)), Halves(canvasH) - DestY(pg, i))

\* the loop's i++
NextSectionSkips(i) == i + 2

NextSection(i) == i + 1

\* Total heights that need 1..MaxSections sections of the viewport: ending
\* on a section boundary, one pixel past it, or 250 pixels short of it.
HeightsFor(viewportHeight) ==
    {viewportHeight * k : k \in 1..MaxSections}
        \cup {viewportHeight * k + 1 : k \in 1..(MaxSections - 1)}
        \cup {viewportHeight * k - 250 : k \in 2..MaxSections}

\* The pages of the drawing specification.
DrawPages ==
    {pg \in [viewportHeight : {700, 1000},
             totalHeight : HeightsFor(700) \cup HeightsFor(1000),
             dpr : DevicePixelRatios] :
        pg.totalHeight \in HeightsFor(pg.viewportHeight)}

\* The pages of the capture specification: a viewport of 1000 CSS pixels on
\* a screen of device pixel ratio 1.
Pages ==
    {pg \in DrawPages :
        /\ pg.viewportHeight = 1000
        /\ pg.dpr = 2
        /\ pg.totalHeight % 1000 # 1}

\* The pages of the measuring specification.
MeasureHeights ==
    {1, 2, 999, 1000, 1001, 1080, 2500, 5000, 119999, 120000, 120001,
     200000}

MeasurePages ==
    {pg \in [viewportHeight : {1, 2, 700, 1000, 1080},
             totalHeight : MeasureHeights, dpr : DevicePixelRatios] :
        pg.totalHeight >= pg.viewportHeight}

\* What travels between the service worker and the tab for CAPTURE_FULL_PAGE:
\* the request, or the response with its dataUrl and error fields.
TabMessage(type, dataUrl, error) ==
    [type |-> type, dataUrl |-> dataUrl, error |-> error]

NoMessage == TabMessage("none", FALSE, FALSE)

InitStitch ==
    /\ pc = "idle"
    /\ numCaptures = 0
    /\ section = 0
    /\ adaptiveDelay = Quarters(rateLimitMs)
    /\ delay = Quarters(rateLimitMs)
    /\ currentDelay = Quarters(rateLimitMs)
    /\ attempt = 0
    /\ channel = "none"
    /\ sectionLog = <<>>
    /\ waits = 0
    /\ requests = 0
    /\ stitchError = "none"
    /\ session = 0
    /\ elapsed = 0
    /\ originalScrollY = 0
    /\ canvasHeight = 0
    /\ drawLog = <<>>
    /\ scrolls = 0
    /\ answers = 0

\* The tab as the user left it: scrolled to the top or 250 pixels down.
InitPage(pages) ==
    /\ page \in pages
    /\ scrollY \in {0, ScrollTo(page, 250)}

\* The CAPTURE_FULL_PAGE listener calls captureFullPage, which runs up to
\* its loop (lines 659-660, 539-575).
StartStitch ==
    /\ pc = "idle"
    /\ elapsed' = 0
    /\ tabChannel.type = "CAPTURE_FULL_PAGE"
    /\ tabChannel' = TabMessage("running", FALSE, FALSE)
    /\ answers' = 0
    /\ session' = session + 1
    /\ numCaptures' = CeilDiv(ClampHeight(page.totalHeight), page.viewportHeight)
    /\ originalScrollY' = scrollY
    /\ canvasHeight' = CanvasHeight(page)
    /\ drawLog' = <<>>
    /\ scrolls' = 0
    /\ section' = 0
    /\ adaptiveDelay' = Quarters(rateLimitMs)
    /\ stitchError' = "none"
    /\ sectionLog' = <<>>
    /\ waits' = 0
    /\ requests' = 0
    /\ attempt' = 0
    /\ pc' = "loop"
    /\ UNCHANGED <<delay, currentDelay, channel, page, scrollY>>
    /\ UNCHANGED <<collapseVars, extractVars, coordVars>>

\* The loop test holds: scrollTo and the settle timer, which fires late
\* quarter-ms after its scrollDelay (lines 577-583).
ScrollToSection(late) ==
    /\ pc = "loop"
    /\ elapsed' = elapsed + Quarters(scrollDelay) + late
    /\ section < numCaptures
    /\ scrollY' = ScrollTo(page, section * page.viewportHeight)
    /\ scrolls' = scrolls + 1
    /\ pc' = "rateWait"
    /\ UNCHANGED <<numCaptures, section, adaptiveDelay, delay, currentDelay,
                   attempt, channel, sectionLog, waits, requests, stitchError,
                   session>>
    /\ UNCHANGED <<page, originalScrollY, canvasHeight, drawLog, answers, tabChannel>>
    /\ UNCHANGED <<collapseVars, extractVars, coordVars>>

\* The loop test fails: restore the scroll position and return (lines 614-618).
FinishLoop ==
    /\ pc = "loop"
    /\ elapsed' = 0
    /\ section >= numCaptures
    /\ scrollY' = ScrollTo(page, originalScrollY)
    /\ pc' = "done"
    /\ UNCHANGED <<numCaptures, section, adaptiveDelay, delay, currentDelay,
                   attempt, channel, sectionLog, waits, requests, stitchError,
                   session>>
    /\ UNCHANGED <<page, originalScrollY, canvasHeight, drawLog, scrolls, answers,
                   tabChannel>>
    /\ UNCHANGED <<collapseVars, extractVars, coordVars>>

\* The rate-limit wait is computed from the time since lastCaptureTime and
\* its timer fires, late quarter-ms after the wait:
\* captureViewportWithRetry(adaptiveDelay) is entered (lines 585-592,
\* 513-515).
EnterRetry(late) ==
    /\ pc = "rateWait"
    /\ elapsed' = elapsed + RateWait(adaptiveDelay, elapsed) + late
    /\ currentDelay' = adaptiveDelay
    /\ delay' = adaptiveDelay
    /\ attempt' = 0
    /\ sectionLog' = <<>>
    /\ waits' = 0
    /\ requests' = 0
    /\ pc' = "attempt"
    /\ UNCHANGED <<numCaptures, section, adaptiveDelay, channel, stitchError,
                   session>>
    /\ UNCHANGED <<pageVars, tabChannel>>
    /\ UNCHANGED <<collapseVars, extractVars, coordVars>>

\* Top of the for loop of captureViewportWithRetry: requestViewportCapture
\* sends CAPTURE_VIEWPORT; past the last attempt the function throws
\* (lines 515-517, 535).
SendCaptureViewport ==
    /\ pc = "attempt"
    /\ elapsed' = 0
    /\ IF attempt < maxRetries
       THEN /\ channel' = "request"
            /\ requests' = requests + 1
            /\ pc' = "awaiting"
            /\ UNCHANGED stitchError
       ELSE /\ pc' = "failed"
            /\ stitchError' = "maxRetriesExceeded"
            /\ UNCHANGED <<channel, requests>>
    /\ UNCHANGED <<numCaptures, section, adaptiveDelay, delay, currentDelay,
                   attempt, sectionLog, waits, session>>
    /\ UNCHANGED <<pageVars, tabChannel>>
    /\ UNCHANGED <<collapseVars, extractVars, coordVars>>

\* chrome.tabs.captureVisibleTab resolves with a data URL or rejects, with or
\* without the rate-limit text in the message (index.ts 75-87).
VisibleTabOutcomes == {"dataUrl", "rateLimited", "error"}

\* case 'CAPTURE_VIEWPORT' of the service worker's listener: the calls of
\* sendResponse it makes, in order.  With sender.tab?.id the data URL goes
\* out in then() and { error: err.message || 'Capture failed' } in catch();
\* without it { error: 'No tab ID available' } (index.ts 338-352).
ViewportAnswersErrorSilent(hasTab, visibleTab) ==
    IF hasTab /\ visibleTab = "dataUrl" THEN <<visibleTab>> ELSE <<>>

ViewportAnswers(hasTab, visibleTab) ==
    IF hasTab THEN <<visibleTab>> ELSE <<"error">>

\* What becomes of the answer on its way: it arrives, the port closes
\* (chrome.runtime.lastError), or something that is neither a string nor an
\* object with an error arrives in its place.
Transports == {"delivered", "lastError", "invalid"}

\* The response the callback of requestViewportCapture is given.
Received(sent, transport) ==
    IF transport # "delivered" THEN transport
    ELSE IF sent = <<>> THEN "lastError"
    ELSE sent[1]

\* Service worker, case 'CAPTURE_VIEWPORT' with a sender tab: captureViewport
\* is called and the outcome of chrome.tabs.captureVisibleTab decides the
\* response (index.ts 338-347); the port may also close with no response
\* (lastError).
OnCaptureViewport(response) ==
    /\ channel = "request"
    /\ UNCHANGED elapsed
    /\ \E visibleTab \in VisibleTabOutcomes, transport \in Transports :
          response = Received(ViewportAnswers(TRUE, visibleTab), transport)
    /\ channel' = response
    /\ effects' = [effects EXCEPT !.screenshots = TRUE]
    /\ UNCHANGED <<pc, numCaptures, section, adaptiveDelay, delay, currentDelay,
                   attempt, sectionLog, waits, requests, stitchError, session>>
    /\ UNCHANGED <<pageVars, tabChannel>>
    /\ UNCHANGED <<collapseVars, extractVars>>
    /\ UNCHANGED <<cpc, request, msgAttempt, acquired, storage, writes, thrown,
                   outcome, requestNo, tab>>

\* The callback of sendMessage runs and captureViewportWithRetry goes on
\* (lines 495-503, 517-532); on success captureFullPage takes nextDelay and
\* sets the image's src (lines 592-594, 597-610).
ReceiveResponse ==
    /\ pc = "awaiting"
    /\ UNCHANGED elapsed
    /\ channel \in Responses
    /\ sectionLog' = Append(sectionLog, channel)
    /\ channel' = "none"
    /\ IF Resolves(channel)
       THEN /\ adaptiveDelay' = NextDelay(delay, currentDelay)
            /\ pc' = "draw"
            /\ UNCHANGED <<delay, stitchError>>
       ELSE IF IsRateLimited(channel) /\ MayRetry(attempt)
       THEN /\ delay' = BackoffDelay(delay)
            /\ pc' = "backoff"
            /\ UNCHANGED <<adaptiveDelay, stitchError>>
       ELSE /\ pc' = "failed"
            /\ stitchError' = channel
            /\ UNCHANGED <<adaptiveDelay, delay>>
    /\ UNCHANGED <<numCaptures, section, currentDelay, attempt, waits,
                   requests, session>>
    /\ UNCHANGED <<pageVars, tabChannel>>
    /\ UNCHANGED <<collapseVars, extractVars, coordVars>>

\* The backoff timer fires: continue with the next attempt (lines 528-529).
BackoffElapsed ==
    /\ pc = "backoff"
    /\ UNCHANGED elapsed
    /\ waits' = waits + 1
    /\ attempt' = attempt + 1
    /\ pc' = "attempt"
    /\ UNCHANGED <<numCaptures, section, adaptiveDelay, delay, currentDelay,
                   channel, sectionLog, requests, stitchError, session>>
    /\ UNCHANGED <<pageVars, tabChannel>>
    /\ UNCHANGED <<collapseVars, extractVars, coordVars>>

\* lastCaptureTime is set (line 594); img.onload fires drawTime quarter-ms
\* later: the image is drawn and the loop goes to its next iteration
\* (lines 597-612).
DrawSection(drawTime) ==
    /\ pc = "draw"
    /\ elapsed' = drawTime
    /\ drawLog' = Append(drawLog,
                         [i |-> section,
                          destY |-> DestY(page, section),
                          destHeight |-> DestHeight(page, canvasHeight, section)])
    /\ section' = NextSection(section)
    /\ pc' = "loop"
    /\ UNCHANGED <<numCaptures, adaptiveDelay, delay, currentDelay, attempt,
                   channel, sectionLog, waits, requests, stitchError, session>>
    /\ UNCHANGED <<page, scrollY, originalScrollY, canvasHeight, scrolls,
                   answers, tabChannel>>
    /\ UNCHANGED <<collapseVars, extractVars, coordVars>>

\* The data URL does not decode: the image's error event fires, for which
\* no handler is set, so the promise awaited at lines 597-611 never settles.
ImageDecodeFails ==
    /\ pc = "draw"
    /\ UNCHANGED elapsed
    /\ pc' = "waitingForLoad"
    /\ UNCHANGED <<numCaptures, section, adaptiveDelay, delay, currentDelay,
                   attempt, channel, sectionLog, waits, requests, stitchError,
                   session>>
    /\ UNCHANGED <<pageVars, tabChannel>>
    /\ UNCHANGED <<collapseVars, extractVars, coordVars>>

\* captureFullPage has returned or thrown: what it and
\* captureViewportWithRetry held in their locals is no longer there.
StitchLocalsGone ==
    /\ numCaptures' = 0
    /\ section' = 0
    /\ delay' = Quarters(rateLimitMs)
    /\ currentDelay' = Quarters(rateLimitMs)
    /\ attempt' = 0
    /\ sectionLog' = <<>>
    /\ waits' = 0
    /\ requests' = 0
    /\ stitchError' = "none"
    /\ originalScrollY' = 0
    /\ canvasHeight' = 0
    /\ drawLog' = <<>>
    /\ scrolls' = 0
    /\ elapsed' = 0

\* recordError: the entry put at the head of the stored error log, here
\* with the module instance that recorded it and the error's message.
ErrorEntry(recorder, message) == [by |-> recorder, error |-> message]

\* The CAPTURE_FULL_PAGE listener answers FULL_PAGE_CAPTURED with
\* canvas.toDataURL's string, or after recordError(err) FULL_PAGE_ERROR with
\* the message (lines 661-668).
AnswerFullPage ==
    /\ pc \in {"done", "failed"}
    /\ tabChannel' = IF pc = "done"
                     THEN TabMessage("FULL_PAGE_CAPTURED", TRUE, FALSE)
                     ELSE TabMessage("FULL_PAGE_ERROR", FALSE, TRUE)
    /\ effects' = IF pc = "done"
                  THEN effects
                  ELSE [effects EXCEPT !.errorEntries =
                           Append(@, ErrorEntry("agent", stitchError))]
    /\ answers' = answers + 1
    /\ pc' = "idle"
    /\ StitchLocalsGone
    /\ UNCHANGED <<adaptiveDelay, channel, session, page, scrollY>>
    /\ UNCHANGED <<collapseVars, extractVars>>
    /\ UNCHANGED <<cpc, request, msgAttempt, acquired, storage, writes, thrown,
                   outcome, requestNo, tab>>

(***************************************************************************)
(* THE COORDINATOR: handleCaptureRequest of the service worker and its     *)
(* two entry points.  A URL is a sequence of pieces, so that startsWith    *)
(* is a comparison of leading pieces.  One request is handled at a time.   *)
(***************************************************************************)
\* browserPagePrefixes
browserPagePrefixes ==
    {<<"chrome:", "//">>, <<"chrome-extension:", "//">>, <<"brave:", "//">>,
     <<"edge:", "//">>, <<"about:">>, <<"devtools:", "//">>}

\* the prefixes the icon-click listener tests
clickSkippedPrefixes == {<<"chrome:", "//">>, <<"chrome-extension:", "//">>}

\* url.startsWith(prefix)
StartsWith(url, prefix) ==
    /\ Len(prefix) <= Len(url)
    /\ SubSeq(url, 1, Len(prefix)) = prefix

\* browserPagePrefixes.some(prefix => url.startsWith(prefix))
IsBrowserPageChromeOnly(url) ==
    \E prefix \in clickSkippedPrefixes : StartsWith(url, prefix)

IsBrowserPage(url) == \E prefix \in browserPagePrefixes : StartsWith(url, prefix)

\* no active tab, or a tab without id or url
NoUrl == <<>>

TabUrls ==
    {NoUrl,
     <<"https:", "//", "example.com/", "about:">>,
     <<"file:", "//", "/home/page.html">>,
     <<"chrome:", "//", "settings">>,
     <<"chrome-extension:", "//", "abcdef/popup.html">>,
     <<"brave:", "//", "settings">>,
     <<"edge:", "//", "settings">>,
     <<"about:", "blank">>,
     <<"devtools:", "//", "devtools/bundled/inspector.html">>}

CaptureTypes == {"viewport", "full-page"}

\* sendMessageToTab's default maxRetries
tabMessageRetries == 5

NoEffects ==
    [injections |-> 0, messages |-> {}, fullPageSends |-> 0,
     screenshots |-> FALSE, preview |-> FALSE, notified |-> <<>>,
     errorEntries |-> <<>>]

\* The message of sendComplete or sendError, with what became of the send.
Terminal(type, error, delivery) ==
    [type |-> type, error |-> error, delivery |-> delivery]

\* chrome.runtime.sendMessage of a notification: delivered to the popup if
\* it is open at that moment, or with no listener a rejected promise or an
\* exception.
Deliveries == {"delivered", "rejected", "throws"}

\* sendProgress, sendComplete and sendError wrap the send in try/catch and
\* do not await it: no outcome leaves the function.
PropagatesThrow(delivery) == delivery = "throws"

Propagates(delivery) == FALSE

NothingAcquired == [screenshot |-> 0, dimensions |-> 0, content |-> 0]

\* const evidenceData = { metadata, screenshot, extractedContent }
EvidenceData(req, acq) ==
    [request |-> req.no, screenshot |-> acq.screenshot,
     dimensions |-> acq.dimensions, content |-> acq.content]

\* A tab into which the content script has not been injected.
NoListeners == [listeners |-> 0, sent |-> 0, loops |-> <<>>]

NoRequest == [no |-> 0, captureType |-> "viewport", url |-> NoUrl]

InitCoordinator ==
    /\ tabChannel = NoMessage
    /\ cpc = "idle"
    /\ request = NoRequest
    /\ msgAttempt = 0
    /\ acquired = NothingAcquired
    /\ effects = NoEffects
    /\ storage = EvidenceData([no |-> 0], NothingAcquired)
    /\ writes = 0
    /\ thrown = "none"
    /\ outcome = "none"
    /\ requestNo = 0
    /\ tab = NoListeners

\* handleCaptureRequest has returned: its locals are no longer there.
RequestLocalsGone ==
    /\ request' = NoRequest
    /\ msgAttempt' = 0
    /\ acquired' = NothingAcquired
    /\ effects' = NoEffects
    /\ writes' = 0
    /\ thrown' = "none"

\* A throw inside the try block of handleCaptureRequest reaches its catch.
ThrowSwallowed(message) ==
    /\ cpc' = "store"
    /\ thrown' = message

ThrowRetriesInjection(message) ==
    /\ cpc' = "inject"
    /\ thrown' = message

Throw(message) ==
    /\ cpc' = "catch"
    /\ thrown' = message

\* handleCaptureRequest from its entry to the check of the URL
\* (index.ts 158-183).
handleCaptureRequest(captureType, url) ==
    /\ cpc = "idle"
    /\ requestNo < MaxSessions
    /\ requestNo' = requestNo + 1
    /\ request' = [no |-> requestNo + 1, captureType |-> captureType,
                   url |-> url]
    /\ msgAttempt' = 0
    /\ acquired' = NothingAcquired
    /\ effects' = NoEffects
    /\ writes' = 0
    /\ outcome' = "none"
    /\ IF url = NoUrl
       THEN Throw("No active tab found")
       ELSE IF IsBrowserPage(url)
       THEN Throw("Cannot capture browser pages")
       ELSE cpc' = "inject" /\ thrown' = "none"
    /\ UNCHANGED <<storage, tab>>
    /\ UNCHANGED <<collapseVars, extractVars, captureVars, pageVars, tabChannel>>

\* case 'CAPTURE_REQUEST' of the service worker's listener (index.ts 334-336).
OnCaptureRequest(captureType, url) ==
    /\ captureType \in CaptureTypes
    /\ handleCaptureRequest(captureType, url)

\* chrome.action.onClicked: the listener returns for a tab without url and
\* for chrome:// and chrome-extension:// pages, and otherwise asks for a
\* full-page capture (index.ts 359-376).
OnActionClicked(url) ==
    /\ url # NoUrl
    /\ ~ \E prefix \in clickSkippedPrefixes : StartsWith(url, prefix)
    /\ handleCaptureRequest("full-page", url)

\* sendProgress(stage, message) and then the step named next
\* (index.ts 22-32).
SendProgressThen(next, delivery) ==
    IF Propagates(delivery)
    THEN Throw("Could not send progress")
    ELSE cpc' = next /\ UNCHANGED thrown

\* chrome.scripting.executeScript, then sleep(20) and
\* sendProgress('capturing') (index.ts 185-203).
InjectScript(ok, delivery) ==
    /\ cpc = "inject"
    /\ effects' = [effects EXCEPT !.injections = @ + 1]
    /\ IF ok
       THEN SendProgressThen("capture", delivery)
       ELSE Throw("Cannot capture this page")
    /\ UNCHANGED <<request, msgAttempt, acquired, storage, writes, outcome,
                   requestNo, tab>>
    /\ UNCHANGED <<collapseVars, extractVars, captureVars, pageVars, tabChannel>>

\* Where handleCaptureRequest is inside a sendMessageToTab call.
SendingTo ==
    IF cpc = "capture" /\ request.captureType = "full-page"
    THEN "CAPTURE_FULL_PAGE"
    ELSE IF cpc = "dimensions" /\ request.captureType = "viewport"
    THEN "GET_DIMENSIONS"
    ELSE IF cpc = "extract" THEN "EXTRACT_CONTENT"
    ELSE "none"

\* sendMessageToTab: chrome.tabs.sendMessage rejects (no listener in the tab
\* yet); sleep(50), then the next attempt, or the throw of lastError after
\* the last one (index.ts 112-127).
TabMessageRejected ==
    /\ SendingTo # "none"
    /\ msgAttempt < tabMessageRetries
    /\ effects' = [effects EXCEPT !.messages = @ \cup {SendingTo}]
    /\ msgAttempt' = msgAttempt + 1
    /\ IF msgAttempt + 1 >= tabMessageRetries
       THEN Throw("Could not establish connection")
       ELSE UNCHANGED <<cpc, thrown>>
    /\ UNCHANGED <<request, acquired, storage, writes, outcome, requestNo, tab>>
    /\ UNCHANGED <<collapseVars, extractVars, captureVars, pageVars, tabChannel>>

\* sendMessageToTab(tabId, { type: 'CAPTURE_FULL_PAGE' }): the message
\* reaches the content script's listener (index.ts 209-214).
SendCaptureFullPage ==
    /\ SendingTo = "CAPTURE_FULL_PAGE"
    /\ msgAttempt < tabMessageRetries
    /\ tabChannel = NoMessage
    /\ tabChannel' = TabMessage("CAPTURE_FULL_PAGE", FALSE, FALSE)
    /\ effects' = [effects EXCEPT !.messages = @ \cup {"CAPTURE_FULL_PAGE"},
                                  !.fullPageSends = @ + 1]
    /\ cpc' = "awaitFullPage"
    /\ UNCHANGED <<request, msgAttempt, acquired, storage, writes, thrown,
                   outcome, requestNo, tab>>
    /\ UNCHANGED <<collapseVars, extractVars, captureVars, pageVars>>

\* response.type === 'FULL_PAGE_ERROR' || !response.dataUrl
FullPageFailedNever(response) == FALSE

FullPageFailed(response) ==
    response.type = "FULL_PAGE_ERROR" \/ ~response.dataUrl

\* The response to CAPTURE_FULL_PAGE arrives (index.ts 214-220).
ReceiveFullPage ==
    /\ cpc = "awaitFullPage"
    /\ tabChannel.type \in {"FULL_PAGE_CAPTURED", "FULL_PAGE_ERROR"}
    /\ tabChannel' = NoMessage
    /\ msgAttempt' = 0
    /\ IF FullPageFailed(tabChannel)
       THEN Throw("Full page capture failed") /\ UNCHANGED acquired
       ELSE /\ acquired' = [acquired EXCEPT !.screenshot = request.no]
            /\ cpc' = "dimensions"
            /\ UNCHANGED thrown
    /\ UNCHANGED <<request, effects, storage, writes, outcome, requestNo, tab>>
    /\ UNCHANGED <<collapseVars, extractVars, captureVars, pageVars>>

\* captureViewport(tabId) for a viewport capture (index.ts 221-224, 75-87).
CaptureViewport(ok) ==
    /\ cpc = "capture"
    /\ request.captureType = "viewport"
    /\ effects' = [effects EXCEPT !.screenshots = TRUE]
    /\ IF ok
       THEN /\ acquired' = [acquired EXCEPT !.screenshot = request.no]
            /\ cpc' = "dimensions"
            /\ UNCHANGED thrown
       ELSE Throw("captureVisibleTab failed") /\ UNCHANGED acquired
    /\ UNCHANGED <<request, msgAttempt, storage, writes, outcome, requestNo, tab>>
    /\ UNCHANGED <<collapseVars, extractVars, captureVars, pageVars, tabChannel>>

\* getImageDimensions: GET_DIMENSIONS is answered by the content script for
\* a viewport capture; fetch and createImageBitmap read the stitched image
\* for a full-page capture and may throw; then sendProgress('extracting')
\* (index.ts 228-236, 90-104).
GetImageDimensions(ok, delivery) ==
    /\ cpc = "dimensions"
    /\ msgAttempt < tabMessageRetries
    /\ request.captureType = "viewport" => ok
    /\ effects' = IF request.captureType = "viewport"
                  THEN [effects EXCEPT !.messages = @ \cup {"GET_DIMENSIONS"}]
                  ELSE effects
    /\ msgAttempt' = 0
    /\ IF ok
       THEN /\ acquired' = [acquired EXCEPT !.dimensions = request.no]
            /\ SendProgressThen("extract", delivery)
       ELSE Throw("createImageBitmap failed") /\ UNCHANGED acquired
    /\ UNCHANGED <<request, storage, writes, outcome, requestNo, tab>>
    /\ UNCHANGED <<collapseVars, extractVars, captureVars, pageVars, tabChannel>>

\* sendMessageToTab(tabId, extractMessage) and the test of the response's
\* type, then sendProgress('generating') (index.ts 245-254).
ExtractionResponses == {"EXTRACTION_COMPLETE", "undefined"}

ExtractContentStep(response, delivery) ==
    /\ cpc = "extract"
    /\ msgAttempt < tabMessageRetries
    /\ effects' = [effects EXCEPT !.messages = @ \cup {"EXTRACT_CONTENT"}]
    /\ msgAttempt' = 0
    /\ IF response = "EXTRACTION_COMPLETE"
       THEN /\ acquired' = [acquired EXCEPT !.content = request.no]
            /\ SendProgressThen("store", delivery)
       ELSE Throw("Content extraction failed") /\ UNCHANGED acquired
    /\ UNCHANGED <<request, storage, writes, outcome, requestNo, tab>>
    /\ UNCHANGED <<collapseVars, extractVars, captureVars, pageVars, tabChannel>>

\* chrome.storage.local.set({ [CAPTURE_STORAGE_KEY]: evidenceData })
\* (index.ts 269-278).
StoreEvidence(ok) ==
    /\ cpc = "store"
    /\ IF ok
       THEN /\ storage' = EvidenceData(request, acquired)
            /\ writes' = writes + 1
            /\ cpc' = "preview"
            /\ UNCHANGED thrown
       ELSE Throw("Failed to save capture data") /\ UNCHANGED <<storage, writes>>
    /\ UNCHANGED <<request, msgAttempt, acquired, effects, outcome, requestNo, tab>>
    /\ UNCHANGED <<collapseVars, extractVars, captureVars, pageVars, tabChannel>>

\* The catch around chrome.tabs.create of the preview page throws again
\* (index.ts 287-290).
PreviewThrowsNever(ok) == FALSE

PreviewThrows(ok) == ~ok

\* chrome.tabs.create of the preview page, then sendComplete(true)
\* (index.ts 280-293).
OpenPreview(ok, delivery) ==
    /\ cpc = "preview"
    /\ IF PreviewThrows(ok)
       THEN /\ Throw("Failed to open preview")
            /\ effects' = [effects EXCEPT !.preview = ok]
            /\ UNCHANGED outcome
       ELSE IF Propagates(delivery)
       THEN /\ Throw("Could not send completion")
            /\ effects' = [effects EXCEPT !.preview = ok]
            /\ UNCHANGED outcome
       ELSE /\ cpc' = "completed"
            /\ outcome' = "complete"
            /\ effects' = [effects EXCEPT
                  !.preview = ok,
                  !.notified = Append(@, Terminal("CAPTURE_COMPLETE",
                                                  "none", delivery))]
            /\ UNCHANGED thrown
    /\ UNCHANGED <<request, msgAttempt, acquired, writes>>
    /\ UNCHANGED <<storage, requestNo, tab>>
    /\ UNCHANGED <<collapseVars, extractVars, captureVars, pageVars, tabChannel>>

\* The catch block: error page, recordError(err), sendError(errorMessage,
\* false), each inside its own try/catch (index.ts 295-321).
CatchError(delivery) ==
    /\ cpc = "catch"
    /\ cpc' = "reported"
    /\ outcome' = "error"
    /\ effects' = [effects EXCEPT
          !.errorEntries = Append(@, ErrorEntry("coordinator", thrown)),
          !.notified = Append(@, Terminal("CAPTURE_ERROR", thrown, delivery))]
    /\ UNCHANGED <<request, msgAttempt, acquired, writes, thrown>>
    /\ UNCHANGED <<storage, requestNo, tab>>
    /\ UNCHANGED <<collapseVars, extractVars, captureVars, pageVars, tabChannel>>

\* handleCaptureRequest returns to its caller, which did not await it
\* (index.ts 322, 335).
ReturnFromRequest ==
    /\ cpc \in {"completed", "reported"}
    /\ cpc' = "idle"
    /\ RequestLocalsGone
    /\ UNCHANGED <<storage, outcome, requestNo, tab>>
    /\ UNCHANGED <<collapseVars, extractVars, captureVars, pageVars, tabChannel>>

NextCapture ==
    \/ \E captureType \in CaptureTypes, url \in TabUrls :
          OnCaptureRequest(captureType, url)
    \/ \E url \in TabUrls : OnActionClicked(url)
    \/ \E ok \in BOOLEAN, delivery \in Deliveries : InjectScript(ok, delivery)
    \/ TabMessageRejected
    \/ SendCaptureFullPage
    \/ ReceiveFullPage
    \/ \E ok \in BOOLEAN : CaptureViewport(ok)
    \/ \E ok \in BOOLEAN, delivery \in Deliveries :
          GetImageDimensions(ok, delivery)
    \/ \E response \in ExtractionResponses, delivery \in Deliveries :
          ExtractContentStep(response, delivery)
    \/ \E ok \in BOOLEAN : StoreEvidence(ok)
    \/ \E ok \in BOOLEAN, delivery \in Deliveries : OpenPreview(ok, delivery)
    \/ \E delivery \in Deliveries : CatchError(delivery)
    \/ ReturnFromRequest
    \/ StartStitch
    \/ \E late \in {0} : ScrollToSection(late)
    \/ FinishLoop
    \/ \E late \in {0} : EnterRetry(late)
    \/ SendCaptureViewport
    \/ \E response \in Responses : OnCaptureViewport(response)
    \/ ReceiveResponse
    \/ BackoffElapsed
    \/ \E drawTime \in {0} : DrawSection(drawTime)
    \/ ImageDecodeFails
    \/ AnswerFullPage

\* The measuring specification: the content script has just been handed
\* CAPTURE_FULL_PAGE on one of MeasurePages.
NextMeasure == StartStitch

\* The drawing specification: one stitch on one of DrawPages in which every
\* viewport capture succeeds at once.
NextDraw ==
    \/ StartStitch
    \/ \E late \in {0} : ScrollToSection(late)
    \/ FinishLoop
    \/ \E late \in {0} : EnterRetry(late)
    \/ SendCaptureViewport
    \/ \E response \in {"dataUrl"} : OnCaptureViewport(response)
    \/ ReceiveResponse
    \/ \E drawTime \in {0} : DrawSection(drawTime)
    \/ AnswerFullPage

(***************************************************************************)
(* SEVERAL CAPTURES OF ONE TAB.  Every capture request runs executeScript  *)
(* on the tab, and each run of the content script registers its message    *)
(* listener; a message to the tab is handed to every listener.  The loops  *)
(* of captureFullPage are followed here by their scrolls and captures      *)
(* only, with every capture succeeding.                                    *)
(***************************************************************************)
\* captureFullPage up to its loop (extractor.ts 539-575).
NewLoop ==
    [section |-> 0, at |-> "loop",
     numCaptures |-> CeilDiv(ClampHeight(page.totalHeight), page.viewportHeight),
     originalScrollY |-> scrollY]

\* The variables that capture requests to one tab leave alone, the tab and
\* its scroll position apart.
tabFrame ==
    <<collapseVars, extractVars, captureVars, page, originalScrollY,
      canvasHeight, drawLog, scrolls, answers, tabChannel, cpc, request,
      msgAttempt, acquired, effects, storage, writes, thrown, outcome>>

\* handleCaptureRequest for a full-page capture, called without a wait for
\* the request before it (index.ts 334-336): chrome.scripting.executeScript
\* runs content-script.js in the tab once more, which registers one more
\* listener (index.ts 188-191, extractor.ts 622); CAPTURE_FULL_PAGE is then
\* on its way to the tab (index.ts 209-214).
ExecuteScript ==
    /\ requestNo < MaxSessions
    /\ requestNo' = requestNo + 1
    /\ tab' = [tab EXCEPT !.listeners = @ + 1, !.sent = @ + 1]
    /\ UNCHANGED scrollY
    /\ UNCHANGED tabFrame

\* CAPTURE_FULL_PAGE reaches the tab: every registered listener runs and
\* calls captureFullPage (extractor.ts 659-660).
DeliverCaptureFullPage ==
    /\ tab.sent > 0
    /\ tab' = [tab EXCEPT
                 !.sent = @ - 1,
                 !.loops = @ \o [k \in 1..tab.listeners |-> NewLoop]]
    /\ UNCHANGED <<scrollY, requestNo>>
    /\ UNCHANGED tabFrame

\* A loop scrolls to its section and its settle timer runs
\* (extractor.ts 577-583).
LoopScroll(k) ==
    /\ k \in 1..Len(tab.loops)
    /\ tab.loops[k].at = "loop"
    /\ tab.loops[k].section < tab.loops[k].numCaptures
    /\ scrollY' = ScrollTo(page, tab.loops[k].section * page.viewportHeight)
    /\ tab' = [tab EXCEPT !.loops[k].at = "settled"]
    /\ UNCHANGED requestNo
    /\ UNCHANGED tabFrame

\* The loop's viewport capture is requested, answered and drawn
\* (extractor.ts 585-612).
LoopCapture(k) ==
    /\ k \in 1..Len(tab.loops)
    /\ tab.loops[k].at = "settled"
    /\ tab' = [tab EXCEPT !.loops[k].at = "loop",
                          !.loops[k].section = NextSection(@)]
    /\ UNCHANGED <<scrollY, requestNo>>
    /\ UNCHANGED tabFrame

\* The loop is over: the scroll position is restored and the listener
\* answers (extractor.ts 614-618, 661-663).
LoopFinish(k) ==
    /\ k \in 1..Len(tab.loops)
    /\ tab.loops[k].at = "loop"
    /\ tab.loops[k].section >= tab.loops[k].numCaptures
    /\ scrollY' = ScrollTo(page, tab.loops[k].originalScrollY)
    /\ tab' = [tab EXCEPT !.loops[k].at = "done"]
    /\ UNCHANGED requestNo
    /\ UNCHANGED tabFrame

\* The loops that MaxSessions requests can start: each message finds at
\* most MaxSessions listeners.
LoopIds == 1..(MaxSessions * MaxSessions)

NextListeners ==
    \/ ExecuteScript
    \/ DeliverCaptureFullPage
    \/ \E k \in LoopIds : LoopScroll(k)
    \/ \E k \in LoopIds : LoopCapture(k)
    \/ \E k \in LoopIds : LoopFinish(k)

\* How late a timer fires, and how long an image takes to load, in
\* quarter-ms.
TimerLateness == {0, Quarters(100)}

DrawTimes == {0, Quarters(400)}

\* The pages of the timing specification.
TimingPages ==
    {pg \in Pages : pg.totalHeight = pg.viewportHeight * MaxSections}

\* The timing specification: one stitch whose captures succeed or are rate
\* limited, with timers that fire on time or late.
NextTiming ==
    \/ StartStitch
    \/ \E late \in TimerLateness : ScrollToSection(late)
    \/ FinishLoop
    \/ \E late \in TimerLateness : EnterRetry(late)
    \/ SendCaptureViewport
    \/ \E response \in {"dataUrl", "rateLimited"} : OnCaptureViewport(response)
    \/ ReceiveResponse
    \/ BackoffElapsed
    \/ \E drawTime \in DrawTimes : DrawSection(drawTime)
    \/ AnswerFullPage

(***************************************************************************)
(* The specifications.                                                     *)
(***************************************************************************)
IdleCollapse ==
    /\ inputKids = <<>>
    /\ dom = [kids |-> <<>>, text |-> <<>>]
    /\ outs = <<>>

IdleExtract ==
    /\ doc = [readability |-> "none"]
    /\ extractLog = <<>>

IdlePage == [viewportHeight |-> 1000, totalHeight |-> 1000, dpr |-> 2]

IdleCapture == InitStitch /\ InitPage({IdlePage}) /\ InitCoordinator

InitCapture == InitStitch /\ InitPage(Pages) /\ InitCoordinator

\* The service worker has sent CAPTURE_FULL_PAGE for its first request and
\* awaits the answer (index.ts 209-214).
InitAwaitingStitch(pages) ==
    /\ InitStitch
    /\ InitPage(pages)
    /\ tabChannel = TabMessage("CAPTURE_FULL_PAGE", FALSE, FALSE)
    /\ cpc = "awaitFullPage"
    /\ request = [no |-> 1, captureType |-> "full-page",
                  url |-> <<"https:", "//", "example.com/", "about:">>]
    /\ msgAttempt = 0
    /\ acquired = NothingAcquired
    /\ effects = [NoEffects EXCEPT !.injections = 1,
                                   !.messages = {"CAPTURE_FULL_PAGE"},
                                   !.fullPageSends = 1]
    /\ storage = EvidenceData([no |-> 0], NothingAcquired)
    /\ writes = 0
    /\ thrown = "none"
    /\ outcome = "none"
    /\ requestNo = 1
    /\ tab = NoListeners

NextCollapse == CollapseCall

InitSpecCollapse == InitCollapse /\ IdleExtract /\ IdleCapture

InitSpecExtract == IdleCollapse /\ InitExtract /\ IdleCapture

InitSpecMeasure == IdleCollapse /\ IdleExtract /\ InitAwaitingStitch(MeasurePages)

InitSpecDraw == IdleCollapse /\ IdleExtract /\ InitAwaitingStitch(DrawPages)

InitSpecTiming == IdleCollapse /\ IdleExtract /\ InitAwaitingStitch(TimingPages)

InitSpecListeners ==
    IdleCollapse /\ IdleExtract /\ InitStitch /\ InitPage(TimingPages)
        /\ InitCoordinator

Init == IdleCollapse /\ IdleExtract /\ InitCapture

SpecCollapse == InitSpecCollapse /\ [][NextCollapse]_vars

SpecExtract == InitSpecExtract /\ [][NextExtract]_vars

SpecMeasure == InitSpecMeasure /\ [][NextMeasure]_vars

SpecDraw == InitSpecDraw /\ [][NextDraw]_vars

SpecTiming == InitSpecTiming /\ [][NextTiming]_vars

SpecListeners == InitSpecListeners /\ [][NextListeners]_vars

Spec == Init /\ [][NextCapture]_vars


(***************************************************************************)
(* What the defragmenter is claimed to do, stated over the container as    *)
(* built and independently of the loop above.                              *)
(***************************************************************************)
\* Trimmed text length of a child as built.
BuiltLength(p) ==
    CASE inputKids[p].shape = "space"    -> 0
      [] inputKids[p].shape = "b26"      -> 26
      [] inputKids[p].shape = "b27"      -> 27
      [] inputKids[p].shape = "padded80" -> 80
      [] inputKids[p].shape = "b81"      -> 81

BuiltShort(p) == inputKids[p].tag = "P" /\ BuiltLength(p) <= 80

Positions == 1..Len(inputKids)

\* The maximal run of short paragraphs around position p (p itself short).
RunLo(p) ==
    CHOOSE q \in 1..p : /\ \A r \in q..p : BuiltShort(r)
                        /\ (q = 1 \/ ~BuiltShort(q - 1))

RunHi(p) ==
    CHOOSE q \in p..Len(inputKids) : /\ \A r \in p..q : BuiltShort(r)
                                     /\ (q = Len(inputKids) \/ ~BuiltShort(q + 1))

RunLength(p) == RunHi(p) - RunLo(p) + 1

\* The texts of positions lo..hi in order, joined by one space.
RECURSIVE JoinedText(_, _)
JoinedText(lo, hi) ==
    IF lo = hi THEN MkText(lo, inputKids[lo].shape)
    ELSE JoinedText(lo, hi - 1) \o <<SP>> \o MkText(hi, inputKids[hi].shape)

IsKid(d, p) == \E k \in 1..Len(d.kids) : d.kids[k] = p

\* kids is an increasing sequence of positions: the survivors keep their order.
InOrder(d) == \A a, b \in 1..Len(d.kids) : a < b => d.kids[a] < d.kids[b]

\* C1: after one call, of every maximal run of three or more consecutive
\* short paragraphs only the first paragraph is left in the container, and
\* it holds the texts of all members of the run in their order joined by one
\* space, whatever precedes the run; [long, short, short, short] becomes the
\* unchanged long paragraph followed by exactly one merged paragraph.
C1_MergesLongRuns ==
    Len(outs) >= 1 =>
        /\ InOrder(outs[1])
        /\ \A p \in Positions :
              (BuiltShort(p) /\ RunLength(p) >= 3) =>
                 IF p = RunLo(p)
                 THEN /\ IsKid(outs[1], p)
                      /\ outs[1].text[p] = JoinedText(p, RunHi(p))
                 ELSE ~IsKid(outs[1], p)
        /\ ( /\ Len(inputKids) = 4
             /\ ~BuiltShort(1) /\ inputKids[1].tag = "P"
             /\ BuiltShort(2) /\ BuiltShort(3) /\ BuiltShort(4) )
           => /\ outs[1].kids = <<1, 2>>
              /\ outs[1].text[1] = MkText(1, inputKids[1].shape)
              /\ outs[1].text[2] = JoinedText(2, 4)

\* A call has run on [long, short, short, short] and left two paragraphs.
C1_Witness ==
    /\ Len(outs) >= 1
    /\ Len(inputKids) = 4
    /\ inputKids[1] = [tag |-> "P", shape |-> "b81"]
    /\ \A p \in 2..4 : inputKids[p] = [tag |-> "P", shape |-> "b26"]
    /\ Len(outs[1].kids) = 2

\* C2: after one call, every paragraph of a maximal run of one or two short
\* paragraphs is still in the container with the text it had, wherever the
\* run is, also directly after a long paragraph.
C2_KeepsShortRuns ==
    Len(outs) >= 1 =>
        \A p \in Positions :
            (BuiltShort(p) /\ RunLength(p) <= 2) =>
                /\ IsKid(outs[1], p)
                /\ outs[1].text[p] = MkText(p, inputKids[p].shape)

\* A call has run on a container in which a run of two short paragraphs
\* directly follows a long paragraph.
C2_Witness ==
    /\ Len(outs) >= 1
    /\ \E p \in Positions :
          /\ p >= 2
          /\ inputKids[p - 1] = [tag |-> "P", shape |-> "b81"]
          /\ BuiltShort(p) /\ RunLo(p) = p /\ RunLength(p) = 2

\* The container's content: its children in order, each with its text.
Content(d) == [k \in 1..Len(d.kids) |->
                 [tag |-> TagOf(d.kids[k]), text |-> d.text[d.kids[k]]]]

\* C3: a second call on the result of the first changes nothing in the
\* container, also when a merged paragraph is itself still short.
C3_Idempotent ==
    Len(outs) >= 2 => Content(outs[2]) = Content(outs[1])

\* Two calls have run, the first merged a run into a paragraph that is still
\* short (26 + 1 + 26 + 1 + 26 = 80 characters).
C3_Witness ==
    /\ Len(outs) >= 2
    /\ \E p \in Positions :
          /\ BuiltShort(p) /\ p = RunLo(p) /\ RunLength(p) >= 3
          /\ IsKid(outs[1], p)
          /\ TrimmedLength(outs[1].text[p]) <= SHORT_PARAGRAPH_THRESHOLD
          /\ Len(outs[1].kids) < Len(inputKids)

\* C18: after one call every child that is not a paragraph and every long
\* paragraph is still in the container, in its place among the others and
\* with its text, and it ends the run before it: no surviving child holds
\* text that came from the other side of such a child.
C18_KeepsOtherChildren ==
    Len(outs) >= 1 =>
        /\ InOrder(outs[1])
        /\ \A p \in Positions :
              ~BuiltShort(p) =>
                 /\ IsKid(outs[1], p)
                 /\ outs[1].text[p] = MkText(p, inputKids[p].shape)
                 /\ \A q \in Positions : \A t \in 1..Len(outs[1].text[q]) :
                       LET origin == outs[1].text[q][t].src
                       IN  (IsKid(outs[1], q) /\ origin # 0 /\ q # p) =>
                              ((q < p) <=> (origin < p))

\* A call has merged three short paragraphs that precede a non-paragraph
\* child and a long paragraph, both of which are still in the container.
C18_Witness ==
    /\ Len(outs) >= 1
    /\ Len(inputKids) = 5
    /\ \A p \in {1, 2, 3} : inputKids[p] = [tag |-> "P", shape |-> "b26"]
    /\ inputKids[4].tag = "DIV"
    /\ inputKids[5] = [tag |-> "P", shape |-> "b81"]
    /\ outs[1].kids = <<1, 4, 5>>

(***************************************************************************)
(* Claims about the content extraction, checked under SpecExtract.         *)
(***************************************************************************)
Handled == 1..Len(extractLog)

\* C4 as claimed: whenever the strategy is "heuristic" and extractContent
\* returns, the returned content is the fallback extractor's content, also
\* when the Readability extraction succeeded.
C4_HeuristicReturnsFallback ==
    \A k \in Handled :
        (extractLog[k].strategy = "heuristic" /\ ~extractLog[k].threw) =>
            extractLog[k].responses[1].content.content = "fallback-content"

\* C6: every EXTRACT_CONTENT message handled is answered by exactly one
\* response, of type EXTRACTION_COMPLETE, whether extractContent returned or
\* threw; when it threw the response carries the placeholder: title the
\* document title or "Unknown Page", the failure notice as content, page type
\* generic, confidence 0.
C6_ExactlyOneResponse ==
    \A k \in Handled :
        /\ Len(extractLog[k].responses) = 1
        /\ extractLog[k].responses[1].type = "EXTRACTION_COMPLETE"
        /\ extractLog[k].threw =>
             LET c == extractLog[k].responses[1].content
             IN  /\ c.title = (IF doc.docTitle = "" THEN "Unknown Page"
                               ELSE doc.docTitle)
                 /\ c.content = "failure-notice"
                 /\ c.pageType = "generic"
                 /\ c.confidence = 0

\* extractContent has thrown in a document without a title and the message
\* was answered with the placeholder titled "Unknown Page".
C6_Witness ==
    \E k \in Handled :
        /\ extractLog[k].threw
        /\ doc.docTitle = ""
        /\ Len(extractLog[k].responses) = 1
        /\ extractLog[k].responses[1].content.title = "Unknown Page"

\* The classification as the specification words it.
Weight(b, w) == IF b THEN w ELSE 0

RefHostSocial(d) ==
    \E domain \in SOCIAL_MEDIA_DOMAINS : Includes(d.url.hostname, domain)

RefForumIndicator(d) ==
    \E indicator \in FORUM_INDICATORS :
        \/ Includes(d.url.hostname, indicator)
        \/ Includes(ToLowerCase(Href(d.url)), indicator)

RefScore(d) ==
    Weight(d.hasArticleTag, 2) + Weight(d.hasMainContent, 1)
      + Weight(d.hasAuthor, 1) + Weight(d.hasPublishDate, 1)
      + Weight(d.ogType = "article", 2)

RefPageType(d) ==
    CASE RefHostSocial(d) -> "social-media"
      [] ~RefHostSocial(d) /\ RefForumIndicator(d) -> "forum"
      [] ~RefHostSocial(d) /\ ~RefForumIndicator(d) /\ RefScore(d) >= 3 -> "article"
      [] OTHER -> "generic"

InRetry == pc \in {"attempt", "awaiting", "backoff"}

\* The number of rate-limited responses received for the current section.
RateLimitedSoFar ==
    Cardinality({k \in 1..Len(sectionLog) : sectionLog[k] = "rateLimited"})

MinOf(a, b) == IF a <= b THEN a ELSE b

\* min(d * 1.5^k, 2000 ms) in quarter milliseconds, by exact arithmetic.
RECURSIVE Pow(_, _)
Pow(b, k) == IF k = 0 THEN 1 ELSE b * Pow(b, k - 1)

RefBackoff(d, k) ==
    IF d * Pow(3, k) >= 4 * 2000 * Pow(2, k)
    THEN 4 * 2000
    ELSE (d * Pow(3, k)) \div Pow(2, k)

\* C8: for one section at most 5 capture requests are sent; each rate-limited
\* rejection among the first 4 attempts sets delay := min(delay * 1.5, 2000)
\* and is followed by one wait and a retry; a 5th rate-limited rejection
\* propagates as the stitch's error; the first success ends the retries.
C8_BoundedBackoff ==
    (InRetry \/ pc \in {"draw", "failed"}) =>
        /\ requests <= 5
        /\ delay = RefBackoff(currentDelay, MinOf(RateLimitedSoFar, 4))
        /\ pc = "attempt"  => requests = attempt /\ waits = attempt
        /\ pc = "awaiting" => requests = attempt + 1 /\ waits = attempt
        /\ pc = "backoff"  =>
              /\ sectionLog[Len(sectionLog)] = "rateLimited"
              /\ Len(sectionLog) <= 4
              /\ waits = Len(sectionLog) - 1
              /\ requests = Len(sectionLog)
        /\ (pc = "failed" /\ stitchError = "rateLimited") =>
              /\ requests = 5
              /\ waits = 4
              /\ \A k \in 1..5 : sectionLog[k] = "rateLimited"
        /\ pc = "draw" =>
              /\ sectionLog[Len(sectionLog)] = "dataUrl"
              /\ requests = Len(sectionLog)
              /\ \A k \in 1..(Len(sectionLog) - 1) : sectionLog[k] # "dataUrl"
        /\ stitchError # "maxRetriesExceeded"

\* The fifth attempt of a section was rate-limited as well and the stitch
\* failed with the rate-limit error after 5 requests and 4 waits.
C8_Witness ==
    /\ pc = "failed"
    /\ stitchError = "rateLimited"
    /\ requests = 5
    /\ waits = 4
    /\ delay = 4 * 2000

\* A response that fails the request without the rate-limit signature.
OtherFailure(r) == r \in {"error", "lastError", "invalid"}

\* C9: a capture request that fails without the rate-limit signature (an
\* error response, a transport error, an invalid response) ends the
\* section's requests at whichever attempt it happens: it is the last
\* response of the section, the stitch has failed with that error, no request
\* is outstanding or was sent after it, and no backoff wait followed it.
C9_NoRetryOnOtherFailure ==
    \A k \in 1..Len(sectionLog) :
        OtherFailure(sectionLog[k]) =>
            /\ k = Len(sectionLog)
            /\ pc \in {"failed", "idle"}
            /\ stitchError = sectionLog[k]
            /\ channel = "none"
            /\ requests = k
            /\ waits = k - 1
            /\ \A j \in 1..(k - 1) : sectionLog[j] = "rateLimited"

\* The third request of a section, sent after two rate-limited rejections,
\* got an invalid response and the stitch failed at once.
C9_Witness ==
    /\ pc = "failed"
    /\ stitchError = "invalid"
    /\ Len(sectionLog) = 3
    /\ requests = 3
    /\ waits = 2

\* C10: within one stitching session the adaptive delay starts at rateLimitMs
\* (550 ms), never decreases from one step to the next, takes the backed-off
\* delay when a capture succeeds, and stays within [550 ms, 2000 ms].
C10_DelayMonotone ==
    /\ [](4 * 550 <= adaptiveDelay /\ adaptiveDelay <= 4 * 2000)
    /\ [][ /\ session' = session => adaptiveDelay' >= adaptiveDelay
           /\ session' # session => adaptiveDelay' = 4 * 550
           /\ (pc = "awaiting" /\ pc' = "draw") => adaptiveDelay' = delay
         ]_vars

\* In a section after the first, a capture has succeeded after two backoffs
\* and the adaptive delay is the backed-off 1237.5 ms.
C10_Witness ==
    /\ pc = "draw"
    /\ section >= 1
    /\ Len(sectionLog) = 3
    /\ adaptiveDelay = 4950
    /\ currentDelay = 4 * 550

(***************************************************************************)
(* The measurements of captureFullPage.                                    *)
(***************************************************************************)
\* min(totalPageHeight, maxPageHeight), by cases
RefClamped == IF page.totalHeight <= 120000 THEN page.totalHeight ELSE 120000

\* n = ceil(a / b): n sections of height b cover a and n - 1 do not.
IsCeilOf(n, a, b) == n * b >= a /\ (n - 1) * b < a

\* The statement of C11 as written: the buffer height is exactly
\* min(totalPageHeight, maxPageHeight) * devicePixelRatio.
C11_BufferHeightExact ==
    pc = "loop" => Halves(canvasHeight) = RefClamped * page.dpr

\* C11: the number of sections is ceil(min(totalPageHeight, maxPageHeight) /
\* viewportHeight) (5 for 5000/1000; 120 for a total of 200000 with viewport
\* 1000), and the buffer height is the integer part of
\* min(totalPageHeight, maxPageHeight) * devicePixelRatio.
C11_SectionCount ==
    pc = "loop" =>
        /\ IsCeilOf(numCaptures, RefClamped, page.viewportHeight)
        /\ (page.totalHeight = 5000 /\ page.viewportHeight = 1000) =>
              numCaptures = 5
        /\ (page.totalHeight = 200000 /\ page.viewportHeight = 1000) =>
              numCaptures = 120
        /\ Halves(canvasHeight) <= RefClamped * page.dpr
        /\ RefClamped * page.dpr < Halves(canvasHeight) + 2

\* A page of 200000 pixels measured with a viewport of 1000 at device pixel
\* ratio 1.5: 120 sections and a buffer of 180000 device pixels.
C11_Witness ==
    /\ pc = "loop"
    /\ page.totalHeight = 200000
    /\ page.viewportHeight = 1000
    /\ page.dpr = 3
    /\ numCaptures = 120
    /\ canvasHeight = 180000

(***************************************************************************)
(* The drawing of the sections.  Offsets and heights are in half device    *)
(* pixels.                                                                 *)
(***************************************************************************)
\* The entries of drawLog state offset and height as line 599-600 compute
\* them from the section index.
DrawnAsComputed(d) ==
    LET offset   == d.i * page.viewportHeight * page.dpr
        imgH     == Halves(ImageHeight(page))
        room     == Halves(canvasHeight) - offset
    IN  /\ d.destY = offset
        /\ d.destHeight = (IF imgH <= room THEN imgH ELSE room)
        /\ d.destY + d.destHeight <= Halves(canvasHeight)

Outstanding == requests - Len(sectionLog)

\* The stitch is past the scroll of the current section.
InSection ==
    pc \in {"rateWait", "attempt", "awaiting", "backoff", "draw",
            "waitingForLoad", "failed"}

\* C12: within one run of captureFullPage the sections are drawn in the
\* order 0, 1, ..., the k-th scroll of the loop goes to (k - 1) *
\* viewportHeight and happens only when k - 1 sections are captured and
\* drawn, at most one viewport capture request is outstanding, and a
\* successful run has drawn exactly numCaptures sections.
C12_SectionsInOrder ==
    pc # "idle" =>
        /\ \A k \in 1..Len(drawLog) : drawLog[k].i = k - 1
        /\ Len(drawLog) = section
        /\ section <= numCaptures
        /\ scrolls = (IF InSection THEN Len(drawLog) + 1 ELSE Len(drawLog))
        /\ InSection =>
              /\ section < numCaptures
              /\ LET target == section * page.viewportHeight
                     last   == page.totalHeight - page.viewportHeight
                 IN  scrollY = (IF target <= last THEN target ELSE last)
        /\ Outstanding \in {0, 1}
        /\ Outstanding = 1 <=> pc = "awaiting"
        /\ channel # "none" => pc = "awaiting"
        /\ pc = "draw" => sectionLog[Len(sectionLog)] = "dataUrl"
        /\ pc = "done" => Len(drawLog) = numCaptures /\ numCaptures >= 1

\* A stitch of three sections has returned with all three drawn, the third
\* after a rate-limited first attempt.
C12_Witness ==
    /\ pc = "done"
    /\ numCaptures = 3
    /\ Len(drawLog) = 3
    /\ scrolls = 3
    /\ sectionLog = <<"rateLimited", "dataUrl">>

(***************************************************************************)
(* The scroll position after a stitch.                                     *)
(***************************************************************************)
\* C13: when captureFullPage has returned an image or has thrown, and so
\* before the listener reports either, the page's scroll position is the one
\* it had when the capture started.
C13_ScrollRestored ==
    pc \in {"done", "failed"} => scrollY = originalScrollY

(***************************************************************************)
(* A failed section.                                                       *)
(***************************************************************************)
FullPageError == [type |-> "FULL_PAGE_ERROR", dataUrl |-> FALSE, error |-> TRUE]

\* C14: when the capture of a section has failed, the stitch makes no further
\* scroll and sends no further capture request; its one remaining step is
\* the answer FULL_PAGE_ERROR, which carries an error and no image data; the
\* coordinator sends CAPTURE_FULL_PAGE at most once per request, takes the
\* answer to its catch block and from there reports the error and ends the
\* request, with no screenshot acquired and the stored record as it was.
C14_FailedSectionAborts ==
    /\ [](/\ pc = "failed" =>
                /\ stitchError # "none"
                /\ channel = "none"
                /\ Outstanding = 0
                /\ cpc = "awaitFullPage"
          /\ tabChannel.type = "FULL_PAGE_ERROR" =>
                /\ tabChannel = FullPageError
                /\ pc = "idle"
                /\ cpc = "awaitFullPage"
          /\ effects.fullPageSends <= 1
          /\ (pc = "failed" \/ tabChannel.type = "FULL_PAGE_ERROR"
                \/ thrown = "Full page capture failed") =>
                /\ request.no = requestNo
                /\ acquired.screenshot = 0
                /\ writes = 0
                /\ storage.request # request.no
                /\ effects.fullPageSends = 1)
    /\ [][/\ pc = "failed" =>
                /\ pc' = "idle"
                /\ tabChannel' = FullPageError
                /\ scrollY' = scrollY
                /\ session' = session
          /\ tabChannel.type = "FULL_PAGE_ERROR" =>
                /\ cpc' = "catch"
                /\ thrown' = "Full page capture failed"
                /\ tabChannel' = NoMessage
                /\ pc' = "idle"
                /\ session' = session
          /\ (cpc = "catch" /\ thrown = "Full page capture failed") =>
                /\ cpc' = "reported"
                /\ outcome' = "error"
                /\ storage' = storage
                /\ pc' = "idle"
                /\ session' = session
                /\ tabChannel' = NoMessage
          /\ (cpc = "reported" /\ thrown = "Full page capture failed") =>
                /\ cpc' = "idle"
                /\ outcome' = "error"
                /\ storage' = storage
                /\ pc' = "idle"
                /\ session' = session
                /\ tabChannel' = NoMessage
         ]_vars

\* The second request's stitch has failed and the coordinator is in its catch
\* block, with the first request's record still the stored one.
C14_Witness ==
    /\ cpc = "catch"
    /\ thrown = "Full page capture failed"
    /\ request.no = 2
    /\ storage.request = 1
    /\ writes = 0
    /\ session = 2

(***************************************************************************)
(* The end of a stitch.                                                    *)
(***************************************************************************)
\* A timer of the stitch fires, a message of it is delivered or answered, or
\* its image loads.
StitchStep ==
    \/ \E late \in {0} : ScrollToSection(late)
    \/ FinishLoop
    \/ \E late \in {0} : EnterRetry(late)
    \/ SendCaptureViewport
    \/ \E response \in Responses : OnCaptureViewport(response)
    \/ ReceiveResponse
    \/ BackoffElapsed
    \/ \E drawTime \in {0} : DrawSection(drawTime)
    \/ AnswerFullPage

\* C15: a CAPTURE_FULL_PAGE request is answered at most once, and as long as
\* it is not answered the stitch has a step to take: it never waits for
\* something that cannot happen.
C15_StitchAnswers ==
    /\ answers <= 1
    /\ tabChannel.type = "running" => pc # "idle" /\ ENABLED StitchStep

(***************************************************************************)
(* The coordinator.                                                        *)
(***************************************************************************)
\* The URL starts with chrome://, chrome-extension://, brave://, edge://,
\* about: or devtools://, by its leading pieces.
RefPrivileged(url) ==
    /\ Len(url) >= 1
    /\ \/ url[1] = "about:"
       \/ /\ Len(url) >= 2
          /\ url[2] = "//"
          /\ url[1] \in {"chrome:", "chrome-extension:", "brave:", "edge:",
                        "devtools:"}

\* C16: while a request for a tab with a privileged URL is handled, no script
\* has been injected, no message sent to the tab and no screenshot call
\* made; the request is in the catch block with the browser-page error, its
\* next step reports the error and the one after ends it.  No other URL is
\* refused as a browser page.
C16_PrivilegedRejected ==
    /\ [](/\ RefPrivileged(request.url) =>
                /\ effects.injections = 0
                /\ effects.messages = {}
                /\ effects.fullPageSends = 0
                /\ ~effects.screenshots
                /\ cpc \in {"catch", "reported"}
                /\ thrown = "Cannot capture browser pages"
                /\ tabChannel = NoMessage
                /\ pc = "idle"
                /\ channel = "none"
          /\ thrown = "Cannot capture browser pages" =>
                RefPrivileged(request.url))
    /\ [][RefPrivileged(request.url) =>
             /\ cpc' = IF cpc = "catch" THEN "reported" ELSE "idle"
             /\ outcome' = "error"
             /\ storage' = storage
             /\ session' = session
         ]_vars

\* A capture request for a devtools:// tab is in the catch block.
C16_Witness ==
    /\ cpc = "catch"
    /\ thrown = "Cannot capture browser pages"
    /\ request.url = <<"devtools:", "//", "devtools/bundled/inspector.html">>
    /\ request.captureType = "full-page"
    /\ effects = NoEffects

\* The record of the request being handled
RefRecord ==
    [request |-> request.no, screenshot |-> request.no,
     dimensions |-> request.no, content |-> request.no]

\* C17: a request writes the stored record at most once; the write happens
\* when screenshot, dimensions and content of this very request have been
\* obtained and stores exactly these; a request whose screenshot, dimension
\* read or extraction failed has written nothing and leaves the record as it
\* was.
C17_StoreOnceWhenComplete ==
    /\ [](/\ writes <= 1
          /\ writes = 1 =>
                /\ request.no = requestNo
                /\ acquired = [screenshot |-> request.no,
                               dimensions |-> request.no,
                               content |-> request.no]
                /\ storage = RefRecord
          /\ (cpc \in {"catch", "reported"} /\ thrown # "Failed to open preview") =>
                /\ writes = 0
                /\ storage.request # request.no
          /\ storage.request # 0 =>
                /\ storage.screenshot = storage.request
                /\ storage.dimensions = storage.request
                /\ storage.content = storage.request)
    /\ [][/\ storage' # storage =>
                /\ cpc = "store"
                /\ request.no >= 1
                /\ acquired.screenshot = request.no
                /\ acquired.dimensions = request.no
                /\ acquired.content = request.no
                /\ writes = 0
                /\ writes' = 1
                /\ storage' = RefRecord
          /\ (cpc \in {"catch", "reported"} /\ thrown # "Failed to open preview") =>
                storage' = storage
         ]_vars

\* The second request, a full-page capture, has stored its record over the
\* first request's and is about to open the preview.
C17_Witness ==
    /\ cpc = "preview"
    /\ request.no = 2
    /\ request.captureType = "full-page"
    /\ writes = 1
    /\ storage.request = 2

(***************************************************************************)
(* A failed injection.                                                     *)
(***************************************************************************)
\* C22: a request whose script injection failed has tried the injection
\* once, has sent no message to the tab and made no screenshot call, and
\* nothing of it is under way in the tab; the failure goes from the injection
\* to the catch block with the message "Cannot capture this page", and the
\* catch block sends that message as the one CAPTURE_ERROR.
C22_InjectionFailure ==
    /\ [](/\ thrown = "Cannot capture this page" =>
                /\ effects.injections = 1
                /\ effects.messages = {}
                /\ effects.fullPageSends = 0
                /\ ~effects.screenshots
                /\ cpc \in {"catch", "reported"}
                /\ tabChannel = NoMessage
                /\ pc = "idle"
                /\ channel = "none"
                /\ writes = 0
          /\ (cpc = "reported" /\ thrown = "Cannot capture this page") =>
                /\ outcome = "error"
                /\ Len(effects.notified) = 1
                /\ effects.notified[1].type = "CAPTURE_ERROR"
                /\ effects.notified[1].error = "Cannot capture this page")
    /\ [][/\ (cpc = "inject" /\ cpc' # "capture") =>
                /\ cpc' = "catch"
                /\ thrown' = "Cannot capture this page"
                /\ effects'.injections = 1
          /\ (cpc = "catch" /\ thrown = "Cannot capture this page") =>
                /\ cpc' = "reported"
                /\ effects'.injections = 1
                /\ effects'.messages = {}
                /\ ~effects'.screenshots
         ]_vars

\* The second request's injection failed and its error has been reported.
C22_Witness ==
    /\ cpc = "reported"
    /\ thrown = "Cannot capture this page"
    /\ request.no = 2
    /\ effects.injections = 1
    /\ Len(effects.notified) = 1

(***************************************************************************)
(* Notifications with no listener.                                         *)
(***************************************************************************)
\* C23: no failure to deliver a notification becomes the error of a request;
\* each step that sends a notification goes on to the step after it when
\* the send is rejected and when it throws for want of a listener; a request
\* that has completed has stored its record and opened the preview, and one
\* that ended in error has recorded the error, whatever became of the
\* notifications.
C23_PopupNotNeeded ==
    /\ thrown \notin {"Could not send progress", "Could not send completion"}
    /\ \A delivery \in {"rejected", "throws"} :
          /\ cpc = "inject" =>
                ENABLED (InjectScript(TRUE, delivery) /\ cpc' = "capture")
          /\ (cpc = "dimensions" /\ msgAttempt < tabMessageRetries) =>
                ENABLED (GetImageDimensions(TRUE, delivery) /\ cpc' = "extract")
          /\ (cpc = "extract" /\ msgAttempt < tabMessageRetries) =>
                ENABLED (ExtractContentStep("EXTRACTION_COMPLETE", delivery)
                            /\ cpc' = "store")
          /\ cpc = "preview" =>
                ENABLED (OpenPreview(TRUE, delivery) /\ cpc' = "completed")
          /\ cpc = "catch" => ENABLED CatchError(delivery)
    /\ cpc = "completed" =>
          /\ writes = 1
          /\ storage = RefRecord
          /\ effects.preview
          /\ outcome = "complete"
          /\ effects.errorEntries = <<>>
    /\ cpc = "reported" =>
          /\ outcome = "error"
          /\ \E k \in 1..Len(effects.errorEntries) :
                effects.errorEntries[k] = [by |-> "coordinator", error |-> thrown]

\* A full-page capture has completed although the send of CAPTURE_COMPLETE
\* threw for want of a listener.
C23_Witness ==
    /\ cpc = "completed"
    /\ request.captureType = "full-page"
    /\ effects.notified[1].delivery = "throws"
    /\ storage = RefRecord

(***************************************************************************)
(* The error log.                                                          *)
(***************************************************************************)
\* C25: a request that ended in error has put exactly one entry into the
\* error log.
C25_SingleDiagnostic ==
    cpc = "reported" => Len(effects.errorEntries) = 1

(***************************************************************************)
(* Terminal notifications.                                                 *)
(***************************************************************************)
\* C29: a request sends at most one of CAPTURE_COMPLETE and CAPTURE_ERROR, and
\* when it has sent CAPTURE_COMPLETE its record is the stored one, written by
\* this request, and the preview tab has been created.
C29_OneTerminalNotification ==
    /\ Len(effects.notified) <= 1
    /\ \A k \in 1..Len(effects.notified) :
          effects.notified[k].type = "CAPTURE_COMPLETE" =>
             /\ writes = 1
             /\ storage = RefRecord
             /\ effects.preview
             /\ thrown = "none"
    /\ cpc \in {"completed", "reported"} <=> Len(effects.notified) = 1

\* The second request has sent CAPTURE_COMPLETE after storing its record and
\* opening the preview.
C29_Witness ==
    /\ cpc = "completed"
    /\ request.no = 2
    /\ Len(effects.notified) = 1
    /\ effects.notified[1].type = "CAPTURE_COMPLETE"
    /\ effects.preview
    /\ storage.request = 2

(***************************************************************************)
(* The stored record after an error.                                       *)
(***************************************************************************)
\* C30: when a request has sent CAPTURE_ERROR, the stored record is not one
\* this request wrote.
C30_ErrorLeavesRecord ==
    cpc = "reported" => (writes = 0 /\ storage.request # request.no)

(***************************************************************************)
(* CAPTURE_VIEWPORT and its answer.                                        *)
(***************************************************************************)
\* C24: the CAPTURE_VIEWPORT listener calls sendResponse exactly once, with
\* the data URL when captureVisibleTab resolved, with an error object when it
\* rejected, and with an error object when the sender has no tab; a request
\* of the agent is answered once and never sent again unanswered.  The agent
\* takes a data URL as success, an error object or a closed port as failure
\* with that error, and anything else as the failure "Invalid response from
\* service worker".
C24_ViewportAnswered ==
    /\ [](/\ \A hasTab \in BOOLEAN, visibleTab \in VisibleTabOutcomes :
                /\ Len(ViewportAnswers(hasTab, visibleTab)) = 1
                /\ ViewportAnswers(hasTab, visibleTab)[1] =
                      (IF hasTab THEN visibleTab ELSE "error")
          /\ Outstanding \in {0, 1}
          /\ Outstanding = 1 <=> channel # "none"
          /\ channel \in Responses \cup {"none", "request"})
    /\ [][/\ (channel = "request" /\ channel' # channel) =>
                /\ channel' \in Responses
                /\ requests' = requests
                /\ pc' = pc
          /\ (pc = "awaiting" /\ pc' # pc) =>
                /\ channel \in Responses
                /\ channel' = "none"
                /\ sectionLog' = Append(sectionLog, channel)
                /\ channel = "dataUrl" <=> pc' = "draw"
                /\ channel \in {"error", "lastError", "invalid"} =>
                      pc' = "failed" /\ stitchError' = channel
                /\ channel = "rateLimited" =>
                      \/ pc' = "backoff"
                      \/ pc' = "failed" /\ stitchError' = channel
         ]_vars

\* After a rate-limited answer the second request got a response that is
\* neither a string nor an error object, and the stitch failed on it.
C24_Witness ==
    /\ pc = "failed"
    /\ stitchError = "invalid"
    /\ sectionLog = <<"rateLimited", "invalid">>
    /\ requests = 2

C27_RowsDepictSection ==
    pc = "draw" =>
        /\ DestY(page, section) = section * page.viewportHeight * page.dpr
        /\ scrollY = section * page.viewportHeight

(***************************************************************************)
(* The time between captures.                                              *)
(***************************************************************************)
\* C21: when the first capture request of a section is about to be sent, the
\* time since the previous successful capture returned (since the start of
\* the stitch for section 0) is at least the adaptive delay and at least
\* scrollDelay + minCaptureDelay; the rate-limit wait ends, timer lateness
\* apart, when the later of the adaptive delay after that capture and
\* minCaptureDelay after the settle timer has passed, whatever time the
\* image's loading and the settle timer took.
C21_RateLimitWait ==
    /\ []((pc = "attempt" /\ attempt = 0) =>
              /\ elapsed >= adaptiveDelay
              /\ elapsed >= Quarters(scrollDelay) + Quarters(minCaptureDelay))
    /\ [][(pc = "rateWait" /\ pc' = "attempt") =>
              /\ elapsed >= Quarters(scrollDelay)
              /\ \E late \in TimerLateness :
                    elapsed' = MaxOf(adaptiveDelay,
                                     elapsed + Quarters(minCaptureDelay)) + late
         ]_vars

\* The second section's first request is about to be sent exactly the
\* adaptive delay, raised by a rate-limited first section, after the first
\* section's capture returned.
C21_Witness ==
    /\ pc = "attempt"
    /\ attempt = 0
    /\ section = 1
    /\ adaptiveDelay > Quarters(rateLimitMs)
    /\ elapsed = adaptiveDelay

(***************************************************************************)
(* Capture requests to one tab.                                            *)
(***************************************************************************)
\* The loops of captureFullPage that have started and not finished.
ActiveLoops == {k \in 1..Len(tab.loops) : tab.loops[k].at # "done"}

\* C28: at most one loop of captureFullPage is active in the tab, and when a
\* loop is about to request the capture of its section i, the page is
\* scrolled to i * viewportHeight.
C28_OneLoopPerTab ==
    /\ Cardinality(ActiveLoops) <= 1
    /\ \A k \in 1..Len(tab.loops) :
          tab.loops[k].at = "settled" =>
             scrollY = tab.loops[k].section * page.viewportHeight

====
